---- MODULE Spec2Model ----
(***************************************************************************)
(* Scoring and ranking engine of the excelr8 CTF platform: flag matching   *)
(* (Submission.save), challenge values (Challenge.current_value), team     *)
(* scores (Team.total_score), hint unlocks (unlock_hint) and the score     *)
(* timeline (scoreboard_timeseries_json), as implemented in                *)
(* src/ctf/models.py, src/ctf/views.py, src/ctf/forms.py, src/ctf/admin.py *)
(***************************************************************************)
EXTENDS Integers, Sequences, FiniteSets, TLC

VARIABLES
    members,          \* Team.members: team -> set of users
    chal,             \* Challenge rows: challenge -> record of its fields
    submissions,      \* Submission table in id order (id = index)
    unlocks,          \* HintUnlock table in id order
    req,              \* unlock_hint requests in flight: slot -> position
    dynamic_scoring,  \* CompetitionSettings.dynamic_scoring
    fchal,            \* the challenge a submission is created against
    created,          \* the Submission most recently created for fchal (<<>>: none yet)
    now,              \* timezone.now(), in half seconds
    registered_at,    \* Team.registered_at: team -> <<time>> (<<>>: no such row)
    is_active,        \* Team.is_active: team -> BOOLEAN
    password_hash,    \* Team.password_hash: team -> <<hash>> (<<>>: the empty string)
    settings_pks,     \* primary keys of the CompetitionSettings rows
    pending           \* submission and settings requests in flight: slot -> position

vars == <<members, chal, submissions, unlocks, req, dynamic_scoring, fchal, created,
          now, registered_at, is_active, password_hash, settings_pks, pending>>

mainVars == <<members, chal, submissions, unlocks, req, dynamic_scoring>>
flagVars == <<fchal, created>>
boardVars == <<now, registered_at, is_active>>
storeVars == <<password_hash, settings_pks, pending>>

----------------------------------------------------------------------------
(* Bounds of the model *)

MaxLen == 2        \* longest flag / submitted text drawn
MaxSubs == 2       \* Submission rows created through the player views
MaxSolves == 8     \* Submission rows created in the value specification
MaxTime == 2       \* last reading of the clock, in half seconds

Users == {"u1", "u2"}
Teams == {"t1", "t2"}
TeamOrder == <<"t1", "t2">>     \* Team.Meta.ordering = ['name']
Challenges == {"c1", "c2"}
Hints == {"h1"}
Slots == {"r1", "r2"}           \* concurrent unlock_hint requests
NoTeam == "none"                \* a null team foreign key
None == "None"

----------------------------------------------------------------------------
(* Strings: sequences of characters.  The alphabet has a whitespace        *)
(* character, an ordinary case pair S/s, and "sz", which stands for the    *)
(* one letter U+00DF (sharp s) whose upper case is two letters:            *)
(* Python gives upper() = 'SS' and lower() = the letter itself.            *)

Alphabet == {" ", "s", "S", "sz"}

StringsUpTo(n) == UNION {[1..k -> Alphabet] : k \in 0..n}

IsSpace(ch) == ch = " "

\* str.lower(), one character
LowerChar(ch) == IF ch = "S" THEN "s" ELSE ch

Lower(s) == [i \in 1..Len(s) |-> LowerChar(s[i])]

RECURSIVE LStrip(_)
LStrip(s) ==
    IF s = <<>> THEN <<>>
    ELSE IF IsSpace(Head(s)) THEN LStrip(Tail(s)) ELSE s

RECURSIVE RStrip(_)
RStrip(s) ==
    IF s = <<>> THEN <<>>
    ELSE IF IsSpace(s[Len(s)]) THEN RStrip(SubSeq(s, 1, Len(s) - 1)) ELSE s

\* str.strip()
Strip(s) == RStrip(LStrip(s))

----------------------------------------------------------------------------
(* Submission.save: the correct field as stored.  `supplied` is the value  *)
(* of correct the instance carries when save() is called (the field        *)
(* default False, a caller's keyword, or the value loaded from the row).   *)

SaveCorrect(submitted_flag, supplied, flag, case_sensitive) ==
    IF submitted_flag # <<>>
    THEN IF case_sensitive
         THEN Strip(submitted_flag) = Strip(flag)
         ELSE Lower(Strip(submitted_flag)) = Lower(Strip(flag))
    ELSE supplied

----------------------------------------------------------------------------
(* Rows *)

\* Hint rows: owning challenge and cost (PositiveIntegerField)
hint == [h \in Hints |-> [challenge |-> "c1", cost |-> 150]]

\* A Challenge row as admin_challenge_new stores it: the dynamic scoring
\* fields keep their model defaults (100, 50, 0.9); decay_factor is the
\* fraction decay[1] / decay[2]
NewChallenge(value, flag, case_sensitive) ==
    [value |-> value, flag |-> flag, case_sensitive |-> case_sensitive,
     initial_value |-> 100, minimum_value |-> 50, decay |-> <<9, 10>>]

\* request.user.teams.filter(is_active=True).first(), teams ordered by name
RECURSIVE FirstTeamFrom(_, _)
FirstTeamFrom(u, i) ==
    IF i > Len(TeamOrder) THEN NoTeam
    ELSE IF u \in members[TeamOrder[i]] /\ is_active[TeamOrder[i]] THEN TeamOrder[i]
    ELSE FirstTeamFrom(u, i + 1)

FirstActiveTeam(u) == FirstTeamFrom(u, 1)

\* Challenge.is_solved_by_user
is_solved_by_user(c, u) ==
    \E i \in DOMAIN submissions :
        /\ submissions[i].challenge = c
        /\ submissions[i].user = u
        /\ submissions[i].correct

\* The row Submission.save stores for a new instance
NewSubmission(u, t, c, text, supplied) ==
    [user |-> u, team |-> t, challenge |-> c, submitted_flag |-> text,
     timestamp |-> now,
     correct |-> SaveCorrect(text, supplied, chal[c].flag, chal[c].case_sensitive)]

----------------------------------------------------------------------------
(* Queries *)

Max(a, b) == IF a >= b THEN a ELSE b

\* first loop of Team.total_score over self.submissions.filter(correct=True)
RECURSIVE SolveTotal(_, _)
SolveTotal(t, n) ==
    IF n = 0 THEN 0
    ELSE SolveTotal(t, n - 1)
         + (IF submissions[n].team = t /\ submissions[n].correct
            THEN chal[submissions[n].challenge].value ELSE 0)

\* second loop of Team.total_score over self.hint_unlocks.all()
RECURSIVE HintTotal(_, _)
HintTotal(t, n) ==
    IF n = 0 THEN 0
    ELSE HintTotal(t, n - 1)
         + (IF unlocks[n].team = t THEN hint[unlocks[n].hint].cost ELSE 0)

total_score_unclamped(t) ==
    SolveTotal(t, Len(submissions)) - HintTotal(t, Len(unlocks))

\* Team.total_score
total_score(t) ==
    Max(0, SolveTotal(t, Len(submissions)) - HintTotal(t, Len(unlocks)))

\* Team.solved_challenges (the ids)
solved_challenges(t) ==
    {submissions[i].challenge :
        i \in {j \in DOMAIN submissions :
                 submissions[j].team = t /\ submissions[j].correct}}

TimelineCandidates_linked(t) ==
    {i \in DOMAIN submissions : submissions[i].correct /\ submissions[i].team = t}

\* scoreboard_timeseries_json: the candidate submissions of a team, as ids;
\* a row matching both branches of the OR is one element
TimelineCandidates(t) ==
    {i \in DOMAIN submissions :
        /\ submissions[i].correct
        /\ (submissions[i].team = t \/ submissions[i].user \in members[t])}

RECURSIVE Cumulative_double(_, _)
Cumulative_double(t, n) ==
    IF n = 0 THEN 0
    ELSE Cumulative_double(t, n - 1)
         + (IF submissions[n].correct /\ submissions[n].team = t
            THEN chal[submissions[n].challenge].value ELSE 0)
         + (IF submissions[n].correct /\ submissions[n].user \in members[t]
            THEN chal[submissions[n].challenge].value ELSE 0)

\* scoreboard_timeseries_json: the cumulative value after walking the
\* candidates with id <= n in (timestamp, id) order
RECURSIVE Cumulative(_, _)
Cumulative(t, n) ==
    IF n = 0 THEN 0
    ELSE Cumulative(t, n - 1)
         + (IF n \in TimelineCandidates(t)
            THEN chal[submissions[n].challenge].value ELSE 0)

\* the y of the last point of the team's series
TimelineFinal(t) == Cumulative(t, Len(submissions))

----------------------------------------------------------------------------
(* Challenge.current_value.  decay_factor ** solve_count is the fraction   *)
(* decay[1]^n / decay[2]^n, with decay[2] > 0; int() truncates toward 0.   *)

RECURSIVE Pow(_, _)
Pow(b, n) == IF n = 0 THEN 1 ELSE b * Pow(b, n - 1)

\* int(a / b) for b > 0
IntOfQuotient(a, b) == IF a >= 0 THEN a \div b ELSE -((-a) \div b)

\* Challenge.attempt_count over the first n rows
RECURSIVE CountRows(_, _, _)
CountRows(c, n, onlyCorrect) ==
    IF n = 0 THEN 0
    ELSE CountRows(c, n - 1, onlyCorrect)
         + (IF /\ submissions[n].challenge = c
               /\ (onlyCorrect => submissions[n].correct)
            THEN 1 ELSE 0)

solve_count_unfiltered(c) == CountRows(c, Len(submissions), FALSE)

\* Challenge.solve_count
solve_count(c) == CountRows(c, Len(submissions), TRUE)

\* Challenge.current_value
current_value(c) ==
    IF ~dynamic_scoring THEN chal[c].value
    ELSE IF solve_count(c) = 0 THEN chal[c].initial_value
    ELSE Max(IntOfQuotient(chal[c].initial_value * Pow(chal[c].decay[1], solve_count(c)),
                           Pow(chal[c].decay[2], solve_count(c))),
             chal[c].minimum_value)

----------------------------------------------------------------------------
(* Inputs *)

\* texts a player posts to the submission views
PlayerTexts == {<<>>, <<" ", "s">>}

\* values the admin views store
EditValues == {-100, 100, 300}
EditFlags == {<<"s">>, <<"S">>}

\* dynamic scoring parameters stored through ChallengeAdmin
ValueInitials == {0, 100, 500}
ValueMinimums == {0, 50, 100}
ValueDecays == {<<4, 5>>, <<1, 2>>, <<1, 1>>, <<3, 2>>, <<-1, 2>>, <<0, 1>>}
AdminTexts == {<<"s">>, <<"sz">>}

IdleReq == [pc |-> "idle", user |-> None, hint |-> None, team |-> None]

\* the key of an instance that has not been given one (self.pk is None)
NoKey == 0

IdlePending == [pc |-> "idle", view |-> None, user |-> None, challenge |-> None,
                text |-> <<>>, pk |-> NoKey]

----------------------------------------------------------------------------
(* Initial state: two teams without members, two visible challenges made   *)
(* with admin_challenge_new, no submission, no unlock.                     *)

InitMain ==
    /\ members = [t \in Teams |-> {}]
    /\ chal = [c \in Challenges |->
                 IF c = "c1" THEN NewChallenge(100, <<"s">>, FALSE)
                             ELSE NewChallenge(200, <<"S">>, FALSE)]
    /\ submissions = <<>>
    /\ unlocks = <<>>
    /\ req = [r \in Slots |-> IdleReq]
    /\ dynamic_scoring = FALSE

InitFlagIdle ==
    /\ fchal = [flag |-> <<>>, case_sensitive |-> FALSE]
    /\ created = <<>>

\* the Team rows as team_register leaves them (password_hash blank), the
\* settings row as the first page view creates it, no request in flight
InitStore ==
    /\ password_hash = [t \in Teams |-> <<>>]
    /\ settings_pks = {1}
    /\ pending = [r \in Slots |-> IdlePending]

\* both Team rows exist and are active (the field default)
InitTeams ==
    /\ now = 0
    /\ registered_at = [t \in Teams |-> <<0>>]
    /\ is_active = [t \in Teams |-> TRUE]
    /\ InitStore

Init == InitMain /\ InitFlagIdle /\ InitTeams

----------------------------------------------------------------------------
(* Membership views *)

\* team_join with a valid form: refused when the user is in an active team;
\* JoinTeamForm.clean_team_name requires an existing, active team
team_join(u, t) ==
    /\ FirstActiveTeam(u) = NoTeam
    /\ registered_at[t] # <<>>
    /\ is_active[t]
    /\ members' = [members EXCEPT ![t] = @ \cup {u}]
    /\ UNCHANGED <<chal, submissions, unlocks, req, dynamic_scoring, flagVars, boardVars, storeVars>>

leave_team(u) ==
    /\ FirstActiveTeam(u) # NoTeam
    /\ members' = [members EXCEPT ![FirstActiveTeam(u)] = @ \ {u}]
    /\ UNCHANGED <<chal, submissions, unlocks, req, dynamic_scoring, flagVars, boardVars, storeVars>>

----------------------------------------------------------------------------
(* Submission views *)

\* challenge_detail, POST: the form field strips the text and requires it;
\* ChallengeSubmissionForm.save links the user's first active team
challenge_detail(u, c, text) ==
    /\ Len(submissions) < MaxSubs
    /\ ~is_solved_by_user(c, u)
    /\ Strip(text) # <<>>
    /\ submissions' = Append(submissions,
           NewSubmission(u, FirstActiveTeam(u), c, Strip(text), FALSE))
    /\ UNCHANGED <<members, chal, unlocks, req, dynamic_scoring, flagVars, boardVars, storeVars>>

\* submit_flag_ajax, POST
submit_flag_ajax(u, c, text) ==
    /\ Len(submissions) < MaxSubs
    /\ ~is_solved_by_user(c, u)
    /\ submissions' = Append(submissions,
           NewSubmission(u, FirstActiveTeam(u), c, Strip(text), FALSE))
    /\ UNCHANGED <<members, chal, unlocks, req, dynamic_scoring, flagVars, boardVars, storeVars>>

----------------------------------------------------------------------------
(* unlock_hint: HintUnlock.objects.get_or_create(user, hint, defaults=team) *)

HasUnlock(u, h) ==
    \E i \in DOMAIN unlocks : unlocks[i].user = u /\ unlocks[i].hint = h

UniqueTogetherOff(u, h) == TRUE

\* HintUnlock.Meta.unique_together: the insert of (user, hint) is admitted
UniqueTogether(u, h) == ~HasUnlock(u, h)

\* the defaults are evaluated, then the lookup runs; a hit ends the request
UnlockGet(r, u, h) ==
    /\ req[r].pc = "idle"
    /\ IF HasUnlock(u, h)
       THEN req' = req
       ELSE req' = [req EXCEPT ![r] =
                [pc |-> "create", user |-> u, hint |-> h, team |-> FirstActiveTeam(u)]]
    /\ UNCHANGED <<members, chal, submissions, unlocks, dynamic_scoring, flagVars, boardVars, storeVars>>

\* the insert; on IntegrityError the existing row is fetched instead
UnlockCreate(r) ==
    /\ req[r].pc = "create"
    /\ IF UniqueTogether(req[r].user, req[r].hint)
       THEN unlocks' = Append(unlocks,
                [user |-> req[r].user, team |-> req[r].team, hint |-> req[r].hint])
       ELSE unlocks' = unlocks
    /\ req' = [req EXCEPT ![r] = IdleReq]
    /\ UNCHANGED <<members, chal, submissions, dynamic_scoring, flagVars, boardVars, storeVars>>

\* unlock_hint served without another unlock request overlapping it
unlock_hint(u, h) ==
    /\ \A r \in Slots : req[r].pc = "idle"
    /\ IF HasUnlock(u, h) \/ ~UniqueTogether(u, h)
       THEN unlocks' = unlocks
       ELSE unlocks' = Append(unlocks,
                [user |-> u, team |-> FirstActiveTeam(u), hint |-> h])
    /\ UNCHANGED <<members, chal, submissions, req, dynamic_scoring, flagVars, boardVars, storeVars>>

----------------------------------------------------------------------------
(* Admin *)

\* admin_challenge_edit, the default subaction
admin_challenge_edit(c, value, flag, case_sensitive) ==
    /\ chal' = [chal EXCEPT ![c].value = value, ![c].flag = flag,
                            ![c].case_sensitive = case_sensitive]
    /\ UNCHANGED <<members, submissions, unlocks, req, dynamic_scoring, flagVars, boardVars, storeVars>>

\* SubmissionAdmin change form: team is the editable field; saving the form
\* calls Submission.save on the loaded instance
SubmissionAdminChange(i, t) ==
    /\ i \in DOMAIN submissions
    /\ LET row == submissions[i]
           c == chal[row.challenge]
       IN submissions' = [submissions EXCEPT ![i] =
              [row EXCEPT !.team = t,
                          !.correct = SaveCorrect(row.submitted_flag, row.correct,
                                                  c.flag, c.case_sensitive)]]
    /\ UNCHANGED <<members, chal, unlocks, req, dynamic_scoring, flagVars, boardVars, storeVars>>

----------------------------------------------------------------------------
(* Specifications *)

\* players joining and leaving teams, submitting flags and unlocking hints,
\* one request at a time
Next ==
    \/ \E u \in Users, t \in Teams : team_join(u, t)
    \/ \E u \in Users : leave_team(u)
    \/ \E u \in Users, c \in Challenges, text \in PlayerTexts : challenge_detail(u, c, text)
    \/ \E u \in Users, c \in Challenges, text \in PlayerTexts : submit_flag_ajax(u, c, text)
    \/ \E u \in Users, h \in Hints : unlock_hint(u, h)

Spec == Init /\ [][Next]_vars

----------------------------------------------------------------------------
(* Overlapping unlock_hint requests.  The initial state is one the players *)
(* reach under Spec: u1 joined t1 and solved c2.                           *)

InitUnlock ==
    /\ members = [t \in Teams |-> IF t = "t1" THEN {"u1"} ELSE {}]
    /\ chal = [c \in Challenges |->
                 IF c = "c1" THEN NewChallenge(100, <<"s">>, FALSE)
                             ELSE NewChallenge(200, <<"S">>, FALSE)]
    /\ submissions = <<[user |-> "u1", team |-> "t1", challenge |-> "c2",
                        submitted_flag |-> <<"s">>, timestamp |-> 0,
                        correct |-> TRUE]>>
    /\ unlocks = <<>>
    /\ req = [r \in Slots |-> IdleReq]
    /\ dynamic_scoring = FALSE
    /\ InitFlagIdle
    /\ InitTeams

NextUnlock ==
    \/ \E u \in Users, t \in Teams : team_join(u, t)
    \/ \E u \in Users : leave_team(u)
    \/ \E r \in Slots, u \in Users, h \in Hints : UnlockGet(r, u, h)
    \/ \E r \in Slots : UnlockCreate(r)

SpecUnlock == InitUnlock /\ [][NextUnlock]_vars

----------------------------------------------------------------------------
(* The admin editing challenges and re-saving submissions while players    *)
(* submit.                                                                 *)

NextAdmin ==
    \/ \E u \in Users, c \in Challenges, text \in PlayerTexts : challenge_detail(u, c, text)
    \/ \E u \in Users, c \in Challenges, text \in PlayerTexts : submit_flag_ajax(u, c, text)
    \/ \E c \in Challenges, v \in EditValues, f \in EditFlags, cs \in BOOLEAN :
          admin_challenge_edit(c, v, f, cs)
    \/ \E i \in 1..MaxSubs, t \in Teams \cup {NoTeam} : SubmissionAdminChange(i, t)

SpecAdmin == Init /\ [][NextAdmin]_vars

----------------------------------------------------------------------------
(* Flag matching: Submission.objects.create against a challenge whose flag *)
(* and case_sensitive setting are drawn from the bounded strings.          *)

InitFlag ==
    /\ InitMain
    /\ fchal \in [flag : StringsUpTo(MaxLen), case_sensitive : BOOLEAN]
    /\ created = <<>>
    /\ InitTeams

\* Submission.objects.create(challenge=fchal, submitted_flag=text, correct=supplied)
CreateSubmission(text, supplied) ==
    /\ created' = <<[submitted_flag |-> text, supplied |-> supplied,
                     correct |-> SaveCorrect(text, supplied, fchal.flag,
                                             fchal.case_sensitive)]>>
    /\ UNCHANGED <<fchal, mainVars, boardVars, storeVars>>

NextFlag ==
    \E text \in StringsUpTo(MaxLen), supplied \in BOOLEAN : CreateSubmission(text, supplied)

SpecFlag == InitFlag /\ [][NextFlag]_vars

----------------------------------------------------------------------------
(* Challenge values under dynamic scoring: the dynamic scoring fields of   *)
(* c1 are drawn from the values ChallengeAdmin stores, submissions are      *)
(* added through SubmissionAdmin (which does not ask whether the user has  *)
(* solved the challenge), and the admin switches dynamic scoring.          *)

InitValue ==
    /\ members = [t \in Teams |-> {}]
    /\ \E iv \in ValueInitials, mv \in ValueMinimums, d \in ValueDecays :
          chal = [c \in Challenges |->
                    IF c = "c1"
                    THEN [NewChallenge(100, <<"s">>, FALSE) EXCEPT
                            !.initial_value = iv, !.minimum_value = mv, !.decay = d]
                    ELSE NewChallenge(200, <<"S">>, FALSE)]
    /\ submissions = <<>>
    /\ unlocks = <<>>
    /\ req = [r \in Slots |-> IdleReq]
    /\ dynamic_scoring = FALSE
    /\ InitFlagIdle
    /\ InitTeams

\* SubmissionAdmin add form: the text field strips and requires the text,
\* correct is read-only and keeps its default
SubmissionAdminAdd(u, t, c, text) ==
    /\ Len(submissions) < MaxSolves
    /\ Strip(text) # <<>>
    /\ submissions' = Append(submissions, NewSubmission(u, t, c, Strip(text), FALSE))
    /\ UNCHANGED <<members, chal, unlocks, req, dynamic_scoring, flagVars, boardVars, storeVars>>

\* CompetitionSettingsAdmin change form, the dynamic_scoring checkbox;
\* get_object returns get_settings(), which creates the row of key 1
CompetitionSettingsAdminSave(b) ==
    /\ dynamic_scoring' = b
    /\ settings_pks' = settings_pks \cup {1}
    /\ UNCHANGED <<members, chal, submissions, unlocks, req, flagVars, boardVars,
                   password_hash, pending>>

NextValue ==
    \/ \E text \in AdminTexts : SubmissionAdminAdd("u1", NoTeam, "c1", text)
    \/ \E b \in BOOLEAN : CompetitionSettingsAdminSave(b)

SpecValue == InitValue /\ [][NextValue]_vars

----------------------------------------------------------------------------
(* Teams solving challenges while the admin switches dynamic scoring.      *)

NextDynamic ==
    \/ \E u \in Users, t \in Teams : team_join(u, t)
    \/ \E u \in Users, c \in Challenges, text \in PlayerTexts : challenge_detail(u, c, text)
    \/ \E b \in BOOLEAN : CompetitionSettingsAdminSave(b)

SpecDynamic == Init /\ [][NextDynamic]_vars

----------------------------------------------------------------------------
(* Leaderboard and timeline views.  A time is a number of half seconds;    *)
(* datetime.isoformat() writes the seconds in two digits, the microseconds *)
(* only when they are not zero, then the UTC offset.  Strings are          *)
(* sequences of code points here: "+" is 43, "." is 46, "0" is 48.         *)

isoformat(n) ==
    <<48 + ((n \div 2) \div 10), 48 + ((n \div 2) % 10)>>
    \o (IF n % 2 = 0 THEN <<>> ELSE <<46, 53>>)
    \o <<43>>

\* Python's < on two strings, or on two tuples of integers
RECURSIVE SeqLess(_, _)
SeqLess(a, b) ==
    IF b = <<>> THEN FALSE
    ELSE IF a = <<>> THEN TRUE
    ELSE IF Head(a) # Head(b) THEN Head(a) < Head(b)
    ELSE SeqLess(Tail(a), Tail(b))

RECURSIVE ActiveFrom_all(_)
ActiveFrom_all(i) ==
    IF i > Len(TeamOrder) THEN <<>>
    ELSE (IF registered_at[TeamOrder[i]] # <<>>
          THEN <<TeamOrder[i]>> ELSE <<>>) \o ActiveFrom_all(i + 1)

\* Team.objects.filter(is_active=True), in Meta.ordering
RECURSIVE ActiveFrom(_)
ActiveFrom(i) ==
    IF i > Len(TeamOrder) THEN <<>>
    ELSE (IF registered_at[TeamOrder[i]] # <<>> /\ is_active[TeamOrder[i]]
          THEN <<TeamOrder[i]>> ELSE <<>>) \o ActiveFrom(i + 1)

ActiveTeamList == ActiveFrom(1)

\* the timestamps of self.submissions.filter(correct=True)
SolveTimes(t) ==
    {submissions[i].timestamp :
        i \in {j \in DOMAIN submissions :
                 submissions[j].team = t /\ submissions[j].correct}}

\* Team.last_solve_time
last_solve_time(t) ==
    IF SolveTimes(t) = {} THEN registered_at[t][1]
    ELSE CHOOSE m \in SolveTimes(t) : \A x \in SolveTimes(t) : x <= m

\* the annotation Count('submissions', filter=Q(submissions__correct=True))
RECURSIVE CountTeamSolves(_, _)
CountTeamSolves(t, n) ==
    IF n = 0 THEN 0
    ELSE CountTeamSolves(t, n - 1)
         + (IF submissions[n].team = t /\ submissions[n].correct THEN 1 ELSE 0)

team_solve_count(t) == CountTeamSolves(t, Len(submissions))

\* list.sort(key=...): a stable sort on the entries' keys
RECURSIVE InsertByKey(_, _)
InsertByKey(sorted, x) ==
    IF sorted = <<>> THEN <<x>>
    ELSE IF SeqLess(x.key, Head(sorted).key) THEN <<x>> \o sorted
    ELSE <<Head(sorted)>> \o InsertByKey(Tail(sorted), x)

RECURSIVE ListSort(_)
ListSort(rows) ==
    IF rows = <<>> THEN <<>>
    ELSE InsertByKey(ListSort(SubSeq(rows, 1, Len(rows) - 1)), rows[Len(rows)])

\* the orders in which the database may return the annotated queryset of
\* scoreboard: order_by('-solve_count'), rows of equal count in any order
ScoreboardQuerysets ==
    {q \in [1..Len(ActiveTeamList) -> {ActiveTeamList[k] : k \in 1..Len(ActiveTeamList)}] :
        /\ \A i, j \in DOMAIN q : q[i] = q[j] => i = j
        /\ \A i, j \in DOMAIN q :
              i < j => team_solve_count(q[i]) >= team_solve_count(q[j])}

\* scoreboard: team_data before the sort, for one order of the queryset
scoreboard_rows(q) ==
    [k \in 1..Len(q) |->
        [team |-> q[k],
         score |-> total_score(q[k]),
         solve_count |-> team_solve_count(q[k]),
         last_solve |-> last_solve_time(q[k]),
         key |-> <<-total_score(q[k]), last_solve_time(q[k])>>]]

\* scoreboard: team_data as rendered
scoreboard(q) == ListSort(scoreboard_rows(q))

\* scoreboard_json: data before the sort
scoreboard_json_rows ==
    [k \in 1..Len(ActiveTeamList) |->
        [team |-> ActiveTeamList[k],
         score |-> total_score(ActiveTeamList[k]),
         solved_count |-> Cardinality(solved_challenges(ActiveTeamList[k])),
         last_solve |-> isoformat(last_solve_time(ActiveTeamList[k])),
         key |-> <<-total_score(ActiveTeamList[k])>>
                 \o isoformat(last_solve_time(ActiveTeamList[k]))]]

scoreboard_json_unsorted == scoreboard_json_rows

\* scoreboard_json: the teams of the response
scoreboard_json == ListSort(scoreboard_json_rows)

\* scoreboard_timeseries_json: the points appended while walking the
\* candidates with id <= n.  Timestamps are set once, from the clock, when a
\* row is inserted, so (timestamp, id) order is id order.
RECURSIVE TimelineWalk(_, _)
TimelineWalk(t, n) ==
    IF n = 0 THEN <<>>
    ELSE TimelineWalk(t, n - 1)
         \o (IF n \in TimelineCandidates(t)
             THEN <<[t |-> isoformat(submissions[n].timestamp), y |-> Cumulative(t, n)]>>
             ELSE <<>>)

TimelinePoints_open(t) ==
    <<[t |-> isoformat(registered_at[t][1]), y |-> 0]>>
    \o TimelineWalk(t, Len(submissions))

\* scoreboard_timeseries_json: the points of one team
TimelinePoints(t) ==
    <<[t |-> isoformat(registered_at[t][1]), y |-> 0]>>
    \o TimelineWalk(t, Len(submissions))
    \o <<[t |-> isoformat(now), y |-> TimelineFinal(t)]>>

\* scoreboard_timeseries_json: the series of the response
scoreboard_timeseries_json ==
    [k \in 1..Len(ActiveTeamList) |->
        [team |-> ActiveTeamList[k], data |-> TimelinePoints(ActiveTeamList[k])]]

\* the clock advances
Tick ==
    /\ now < MaxTime
    /\ now' = now + 1
    /\ UNCHANGED <<mainVars, flagVars, registered_at, is_active, storeVars>>

\* team_register with a valid form: Team.name is unique; the new team is
\* active and its first member is the user
team_register(u, t) ==
    /\ FirstActiveTeam(u) = NoTeam
    /\ registered_at[t] = <<>>
    /\ registered_at' = [registered_at EXCEPT ![t] = <<now>>]
    /\ is_active' = [is_active EXCEPT ![t] = TRUE]
    /\ members' = [members EXCEPT ![t] = {u}]
    /\ UNCHANGED <<chal, submissions, unlocks, req, dynamic_scoring, flagVars, now, storeVars>>

\* TeamAdmin: the is_active column of the list, activate_teams, deactivate_teams
TeamAdminSetActive(t, b) ==
    /\ registered_at[t] # <<>>
    /\ is_active' = [is_active EXCEPT ![t] = b]
    /\ UNCHANGED <<mainVars, flagVars, now, registered_at, storeVars>>

\* no Team row yet
InitBoard ==
    /\ InitMain
    /\ InitFlagIdle
    /\ now = 0
    /\ registered_at = [t \in Teams |-> <<>>]
    /\ is_active = [t \in Teams |-> FALSE]
    /\ InitStore

NextBoard ==
    \/ Tick
    \/ \E u \in Users, t \in Teams : team_register(u, t)
    \/ \E u \in Users, t \in Teams : team_join(u, t)
    \/ \E u \in Users, c \in Challenges, text \in PlayerTexts : challenge_detail(u, c, text)

SpecBoard == InitBoard /\ [][NextBoard]_vars

\* the admin activating and deactivating teams while players join and solve
NextActive ==
    \/ \E u \in Users, t \in Teams : team_join(u, t)
    \/ \E u \in Users, c \in Challenges, text \in PlayerTexts : challenge_detail(u, c, text)
    \/ \E t \in Teams, b \in BOOLEAN : TeamAdminSetActive(t, b)

SpecActive == Init /\ [][NextActive]_vars

----------------------------------------------------------------------------
(* Players moving between teams and solving challenges.                    *)

NextMembers ==
    \/ \E u \in Users, t \in Teams : team_join(u, t)
    \/ \E u \in Users : leave_team(u)
    \/ \E u \in Users, c \in Challenges, text \in PlayerTexts : challenge_detail(u, c, text)

SpecMembers == Init /\ [][NextMembers]_vars

----------------------------------------------------------------------------
(* Team passwords.  A hash is the pair of the algorithm and the password   *)
(* it was made from (the salt is left out).                                *)

Passwords == {"p1", "p2"}

\* the team_password the registrant of team t posts to team_register
ChosenPassword == [t \in Teams |-> IF t = "t1" THEN "p1" ELSE "p2"]

make_password(pw) == <<"pbkdf2_sha256", pw>>

check_password(pw, encoded) == encoded = make_password(pw)

\* TeamJoinForm.is_valid: clean_team_name, then clean
TeamJoinFormValid(t, pw) ==
    /\ registered_at[t] # <<>>
    /\ is_active[t]
    /\ ~(password_hash[t] # <<>> /\ ~check_password(pw, password_hash[t]))

\* team_join, POST, with the password the form receives
team_join_post(u, t, pw) ==
    /\ FirstActiveTeam(u) = NoTeam
    /\ IF TeamJoinFormValid(t, pw)
       THEN members' = [members EXCEPT ![t] = @ \cup {u}]
       ELSE members' = members
    /\ UNCHANGED <<chal, submissions, unlocks, req, dynamic_scoring, flagVars, boardVars,
                   storeVars>>

\* TeamAdmin change form: the admin stores the hash of the team's password
\* in password_hash
TeamAdminSetPasswordHash(t) ==
    /\ registered_at[t] # <<>>
    /\ password_hash' = [password_hash EXCEPT ![t] = make_password(ChosenPassword[t])]
    /\ UNCHANGED <<mainVars, flagVars, boardVars, settings_pks, pending>>

NextPassword ==
    \/ Tick
    \/ \E u \in Users, t \in Teams : team_register(u, t)
    \/ \E u \in Users, t \in Teams, pw \in Passwords : team_join_post(u, t, pw)
    \/ \E u \in Users : leave_team(u)
    \/ \E t \in Teams : TeamAdminSetPasswordHash(t)

SpecPassword == InitBoard /\ [][NextPassword]_vars

----------------------------------------------------------------------------
(* CompetitionSettings rows.  dynamic_scoring is the field of the row of   *)
(* key 1, the row get_settings returns; it has its default while that row  *)
(* does not exist.                                                         *)

\* keys an instance is saved with (NoKey: the database assigns the key)
SettingsKeys == {NoKey, 1, 2}

\* the key the database assigns to a new row
NextSettingsKey ==
    IF settings_pks = {} THEN 1
    ELSE (CHOOSE m \in settings_pks : \A x \in settings_pks : x <= m) + 1

\* CompetitionSettings.get_settings: get_or_create(pk=1, defaults=...)
get_settings ==
    /\ settings_pks' = settings_pks \cup {1}
    /\ UNCHANGED <<mainVars, flagVars, boardVars, password_hash, pending>>

\* reading Challenge.current_value, as challenge pages and the admin do
current_value_query(c) ==
    /\ settings_pks' = settings_pks \cup {1}
    /\ UNCHANGED <<mainVars, flagVars, boardVars, password_hash, pending>>

\* scoreboard, scoreboard_json and scoreboard_timeseries_json write nothing
scoreboard_request ==
    /\ UNCHANGED vars

\* CompetitionSettings.save, the guard: a second instance without a key is
\* refused with ValidationError
SettingsSaveCheck(r, pk) ==
    /\ pending[r].pc = "idle"
    /\ IF settings_pks # {} /\ pk = NoKey
       THEN pending' = pending
       ELSE pending' = [pending EXCEPT ![r] = [IdlePending EXCEPT !.pc = "save", !.pk = pk]]
    /\ UNCHANGED <<mainVars, flagVars, boardVars, password_hash, settings_pks>>

\* CompetitionSettings.save, super().save(): the row is inserted, or updated
\* when its key exists; an instance saved with key 1 carries the field default
SettingsSaveWrite(r) ==
    /\ pending[r].pc = "save"
    /\ LET key == IF pending[r].pk = NoKey THEN NextSettingsKey ELSE pending[r].pk
       IN /\ settings_pks' = settings_pks \cup {key}
          /\ dynamic_scoring' = IF key = 1 THEN FALSE ELSE dynamic_scoring
    /\ pending' = [pending EXCEPT ![r] = IdlePending]
    /\ UNCHANGED <<members, chal, submissions, unlocks, req, flagVars, boardVars,
                   password_hash>>

\* an empty CompetitionSettings table
InitSettings ==
    /\ InitMain
    /\ InitFlagIdle
    /\ now = 0
    /\ registered_at = [t \in Teams |-> <<0>>]
    /\ is_active = [t \in Teams |-> TRUE]
    /\ password_hash = [t \in Teams |-> <<>>]
    /\ settings_pks = {}
    /\ pending = [r \in Slots |-> IdlePending]

NextSettings ==
    \/ get_settings
    \/ \E c \in Challenges : current_value_query(c)
    \/ scoreboard_request
    \/ \E r \in Slots, pk \in SettingsKeys : SettingsSaveCheck(r, pk)
    \/ \E r \in Slots : SettingsSaveWrite(r)
    \/ \E b \in BOOLEAN : CompetitionSettingsAdminSave(b)

SpecSettings == InitSettings /\ [][NextSettings]_vars

----------------------------------------------------------------------------
(* Flag submission requests, statement by statement: the view asks         *)
(* is_solved_by_user, and creates the Submission row in a later statement; *)
(* requests of different workers interleave between the two.               *)

SubmitViews == {"challenge_detail", "submit_flag_ajax"}

\* challenge_detail up to form.is_valid(), submit_flag_ajax up to the
\* is_solved_by_user test: a solved challenge ends the request, and so does
\* an invalid ChallengeSubmissionForm
SubmitCheck(r, view, u, c, text) ==
    /\ pending[r].pc = "idle"
    /\ IF \/ is_solved_by_user(c, u)
          \/ view = "challenge_detail" /\ Strip(text) = <<>>
       THEN pending' = pending
       ELSE pending' = [pending EXCEPT ![r] =
                [IdlePending EXCEPT !.pc = "create", !.view = view, !.user = u,
                                    !.challenge = c, !.text = Strip(text)]]
    /\ UNCHANGED <<mainVars, flagVars, boardVars, password_hash, settings_pks>>

\* form.save() of challenge_detail, Submission.objects.create of
\* submit_flag_ajax: the team is looked up and the row is inserted
SubmitCreate(r) ==
    /\ pending[r].pc = "create"
    /\ Len(submissions) < MaxSubs
    /\ submissions' = Append(submissions,
           NewSubmission(pending[r].user, FirstActiveTeam(pending[r].user),
                         pending[r].challenge, pending[r].text, FALSE))
    /\ pending' = [pending EXCEPT ![r] = IdlePending]
    /\ UNCHANGED <<members, chal, unlocks, req, dynamic_scoring, flagVars, boardVars,
                   password_hash, settings_pks>>

NextSubmit ==
    \/ \E r \in Slots, view \in SubmitViews, u \in Users, c \in Challenges,
          text \in PlayerTexts : SubmitCheck(r, view, u, c, text)
    \/ \E r \in Slots : SubmitCreate(r)

SpecSubmit == Init /\ [][NextSubmit]_vars

----------------------------------------------------------------------------
(* Reference quantities used by the properties *)

\* the correct submissions linked to team t, and the unlocks linked to it
LinkedSolves(t) ==
    {i \in DOMAIN submissions : submissions[i].team = t /\ submissions[i].correct}
LinkedUnlocks(t) == {i \in DOMAIN unlocks : unlocks[i].team = t}

\* the unlocks attributable to team t: linked to it, or made by a current member
AttributableUnlocks(t) ==
    {i \in DOMAIN unlocks : unlocks[i].team = t \/ unlocks[i].user \in members[t]}

RECURSIVE SumValues(_)
SumValues(S) ==
    IF S = {} THEN 0
    ELSE LET i == CHOOSE x \in S : TRUE
         IN chal[submissions[i].challenge].value + SumValues(S \ {i})

RECURSIVE SumCosts(_)
SumCosts(S) ==
    IF S = {} THEN 0
    ELSE LET i == CHOOSE x \in S : TRUE
         IN hint[unlocks[i].hint].cost + SumCosts(S \ {i})

\* Python's str.upper(), one character; the result may be two characters
UpperChar(ch) ==
    IF ch = "s" THEN <<"S">>
    ELSE IF ch = "sz" THEN <<"S", "S">>
    ELSE <<ch>>

RECURSIVE Upper(_)
Upper(s) == IF s = <<>> THEN <<>> ELSE UpperChar(Head(s)) \o Upper(Tail(s))

\* the row a step appends to the Submission table
Appended == submissions'[Len(submissions')]
AppendsSubmission == Len(submissions') = Len(submissions) + 1

----------------------------------------------------------------------------
(* Properties *)

\* C1: a further correct submission for a challenge the team has already
\* solved changes neither the team's total_score nor the number of
\* challenges it has solved.
C1_CreditOncePerChallenge ==
    [][\A t \in Teams :
          (/\ AppendsSubmission
           /\ Appended.correct
           /\ Appended.team = t
           /\ Appended.challenge \in solved_challenges(t))
          => /\ total_score(t)' = total_score(t)
             /\ Cardinality(solved_challenges(t))' = Cardinality(solved_challenges(t))]_vars

\* C2: total_score is max(0, sum of the team's solve credits minus the sum
\* of its unlocked hint costs), clamped once after the aggregation, and is
\* never negative.
C2_ScoreClampedOnce ==
    \A t \in Teams :
        /\ total_score(t) >= 0
        /\ total_score(t) =
              Max(0, SumValues(LinkedSolves(t)) - SumCosts(LinkedUnlocks(t)))

\* C2 witness: one team's hint costs exceed its solve credits and its score
\* is 0, while another team keeps the rest of a solve after its hint.
C2_Witness ==
    \E t1, t2 \in Teams :
        /\ LinkedSolves(t1) # {}
        /\ SumValues(LinkedSolves(t1)) - SumCosts(LinkedUnlocks(t1)) < 0
        /\ total_score(t1) = 0
        /\ LinkedUnlocks(t2) # {}
        /\ total_score(t2) = 50

\* C3: total_score attributes to a team the correct submissions the timeline
\* attributes to it: with no hint unlock, and every timeline candidate either
\* linked to the team or a null-team row of a current member, the last
\* cumulative value of the timeline equals total_score.
C3_ScoreFollowsTimeline ==
    \A t \in Teams :
        (/\ LinkedUnlocks(t) = {}
         /\ \A i \in TimelineCandidates(t) : submissions[i].team \in {t, NoTeam})
        => total_score(t) = TimelineFinal(t)

\* C4: the cost of every unlock attributable to a team (linked to it, or a
\* null-team unlock by a current member) is deducted from its score.
C4_AttributableHintsDeducted ==
    \A t \in Teams :
        (\A i \in AttributableUnlocks(t) : unlocks[i].team \in {t, NoTeam})
        => total_score(t) =
              Max(0, SumValues(LinkedSolves(t)) - SumCosts(AttributableUnlocks(t)))

\* C5: at most one HintUnlock row per (user, hint) after any interleaving of
\* unlock_hint requests, and a request for a hint the user has already
\* unlocked creates no row and leaves every team's score unchanged.
OneUnlockPerUserHint ==
    \A i, j \in DOMAIN unlocks :
        (unlocks[i].user = unlocks[j].user /\ unlocks[i].hint = unlocks[j].hint) => i = j

RepeatedUnlockIsNoop ==
    \A r \in Slots :
        /\ (UnlockCreate(r) /\ HasUnlock(req[r].user, req[r].hint))
              => (unlocks' = unlocks /\ \A t \in Teams : total_score(t)' = total_score(t))
        /\ \A u \in Users, h \in Hints :
              (UnlockGet(r, u, h) /\ HasUnlock(u, h))
                 => (unlocks' = unlocks /\ req' = req
                     /\ \A t \in Teams : total_score(t)' = total_score(t))

C5_UnlockOncePerUserHint == []OneUnlockPerUserHint /\ [][RepeatedUnlockIsNoop]_vars

\* C5 witness: two requests of one user for one hint overlapped, one of them
\* has inserted the row and the other is about to insert, with the team's
\* score reduced by the one row.
C5_Witness ==
    \E r \in Slots :
        /\ req[r].pc = "create"
        /\ HasUnlock(req[r].user, req[r].hint)
        /\ total_score("t1") = 50

\* two submissions created one after the other against the same challenge
CreatedTwice == created # <<>> /\ created' # <<>>

\* C6: trimming invariance: the correctness recorded for a new submission of
\* a text equals the correctness recorded for a new submission of the text
\* with leading and trailing whitespace removed, for every flag and text.
C6_TrimmingInvariance ==
    [][(/\ CreatedTwice
        /\ created'[1].supplied = created[1].supplied
        /\ created'[1].submitted_flag = Strip(created[1].submitted_flag))
       => created'[1].correct = created[1].correct]_vars

\* C7: for a non-empty text the stored correct is the reference comparison
\* (exact after trimming when case_sensitive, after folding both sides to one
\* letter case otherwise), whatever correct the caller supplied, so that
\* upper-casing the text of a case-insensitive challenge never changes it.
StoredIsComparison ==
    (created # <<>> /\ created[1].submitted_flag # <<>>)
    => created[1].correct =
          IF fchal.case_sensitive
          THEN Strip(created[1].submitted_flag) = Strip(fchal.flag)
          ELSE Lower(Strip(created[1].submitted_flag)) = Lower(Strip(fchal.flag))

UpperCasingKeepsResult ==
    (/\ CreatedTwice
     /\ ~fchal.case_sensitive
     /\ created[1].submitted_flag # <<>>
     /\ created'[1].submitted_flag = Upper(created[1].submitted_flag))
    => created'[1].correct = created[1].correct

C7_StoredCorrectIsReference == []StoredIsComparison /\ [][UpperCasingKeepsResult]_vars

\* C8: an empty submitted text is recorded as correct if and only if the
\* challenge's flag is empty after trimming, whatever correct was supplied.
C8_EmptyTextCorrectIffEmptyFlag ==
    (created # <<>> /\ created[1].submitted_flag = <<>>)
    => (created[1].correct <=> Strip(fchal.flag) = <<>>)

\* C9: the correct value of an existing submission never changes, whatever
\* is edited and re-saved later.
C9_CorrectFixedAtCreation ==
    [][\A i \in DOMAIN submissions :
          /\ i \in DOMAIN submissions'
          /\ submissions'[i].correct = submissions[i].correct]_vars

\* C10: current_value is challenge.value when dynamic scoring is off,
\* initial_value when it is on and the challenge has no correct submission,
\* and otherwise max(floor(initial_value * decay_factor^solveCount),
\* minimum_value), solveCount being the number of correct submissions for
\* the challenge.
CorrectSubmissions(c) ==
    {i \in DOMAIN submissions : submissions[i].challenge = c /\ submissions[i].correct}

ReferenceCurrentValue(c) ==
    LET n == Cardinality(CorrectSubmissions(c))
    IN IF ~dynamic_scoring THEN chal[c].value
       ELSE IF n = 0 THEN chal[c].initial_value
       ELSE Max((chal[c].initial_value * Pow(chal[c].decay[1], n))
                    \div Pow(chal[c].decay[2], n),
                chal[c].minimum_value)

DecayInUnitInterval(c) ==
    chal[c].decay[1] > 0 /\ chal[c].decay[1] <= chal[c].decay[2]

\* C11: with dynamic scoring enabled and decay_factor in (0,1], for every
\* challenge that can be stored, current_value never increases when a correct
\* submission is appended, and minimum_value <= current_value <= initial_value
\* in every reachable state.
ValueWithinBounds ==
    \A c \in Challenges :
        (dynamic_scoring /\ DecayInUnitInterval(c))
        => /\ chal[c].minimum_value <= current_value(c)
           /\ current_value(c) <= chal[c].initial_value

ValueNonIncreasing ==
    \A c \in Challenges :
        (/\ dynamic_scoring /\ dynamic_scoring'
         /\ DecayInUnitInterval(c)
         /\ AppendsSubmission /\ Appended.correct /\ Appended.challenge = c)
        => current_value(c)' <= current_value(c)

C11_ValueMonotoneWithinBounds == []ValueWithinBounds /\ [][ValueNonIncreasing]_vars

\* C12: for a decay_factor outside (0,1] current_value is clamped into
\* [minimum_value, initial_value] and is never negative (stated for the
\* challenges whose interval is not empty).
C12_ValueClampedOutsideUnitInterval ==
    \A c \in Challenges :
        (/\ dynamic_scoring
         /\ ~DecayInUnitInterval(c)
         /\ chal[c].minimum_value <= chal[c].initial_value)
        => /\ chal[c].minimum_value <= current_value(c)
           /\ current_value(c) <= chal[c].initial_value
           /\ current_value(c) >= 0

\* the dynamic value of challenge c once n correct submissions are counted
ValueAfterSolves(c, n) ==
    IF n = 0 THEN chal[c].initial_value
    ELSE Max((chal[c].initial_value * Pow(chal[c].decay[1], n))
                 \div Pow(chal[c].decay[2], n),
             chal[c].minimum_value)

\* the position of submission i among the correct submissions of its challenge
SolvePosition(i) ==
    Cardinality({j \in CorrectSubmissions(submissions[i].challenge) : j <= i})

\* C13: with dynamic scoring enabled the credit a team's score carries for a
\* correct submission is the challenge's value at the submission's own
\* position in the solve sequence (the value before or after that solve is
\* counted); with dynamic scoring disabled it is challenge.value.  Stated for
\* a team whose score consists of one credit.
C13_CreditIsValueAtPosition ==
    \A t \in Teams : \A i \in LinkedSolves(t) :
        (LinkedSolves(t) = {i} /\ LinkedUnlocks(t) = {})
        => IF dynamic_scoring
           THEN total_score(t) \in
                   {ValueAfterSolves(submissions[i].challenge, SolvePosition(i) - 1),
                    ValueAfterSolves(submissions[i].challenge, SolvePosition(i))}
           ELSE total_score(t) = chal[submissions[i].challenge].value

----------------------------------------------------------------------------
(* Leaderboard and timeline properties *)

\* the teams that have a row and are active
ActiveTeams == {t \in Teams : registered_at[t] # <<>> /\ is_active[t]}

\* the correct submissions attributable to team t: linked to it, or made
\* with a null team by a current member
AttributableSolves(t) ==
    {i \in DOMAIN submissions :
        /\ submissions[i].correct
        /\ \/ submissions[i].team = t
           \/ (submissions[i].team = NoTeam /\ submissions[i].user \in members[t])}

\* adjacent entries of a ranked list are in (score desc, last solve asc) order
RankedInOrder(list) ==
    \A k \in 1..(Len(list) - 1) :
        \/ list[k].score > list[k + 1].score
        \/ /\ list[k].score = list[k + 1].score
           /\ last_solve_time(list[k].team) <= last_solve_time(list[k + 1].team)

\* C14: in the list of scoreboard and of scoreboard_json, each entry has a
\* strictly higher score than the next, or an equal score and a last-solve
\* time earlier than or equal to the next entry's.
C14_LeaderboardOrdered ==
    /\ \A q \in ScoreboardQuerysets : RankedInOrder(scoreboard(q))
    /\ RankedInOrder(scoreboard_json)

\* C14 witness: two active teams tie on a positive score, the team later in
\* name order solved earlier, at a whole second, the other half a second
\* later, and the later-named team is listed first in both views.
C14_Witness ==
    /\ Len(scoreboard_json) = 2
    /\ scoreboard_json[1].team = "t2"
    /\ scoreboard_json[1].score = scoreboard_json[2].score
    /\ scoreboard_json[1].score > 0
    /\ last_solve_time("t2") % 2 = 0
    /\ last_solve_time("t1") = last_solve_time("t2") + 1
    /\ \A q \in ScoreboardQuerysets : scoreboard(q)[1].team = "t2"

\* C15: last_solve_time is the latest timestamp over the correct submissions
\* attributable to the team, and registered_at when there is none.
C15_LastSolveOverAttributable ==
    \A t \in Teams :
        registered_at[t] # <<>>
        => last_solve_time(t) =
              IF AttributableSolves(t) = {} THEN registered_at[t][1]
              ELSE CHOOSE m \in {submissions[i].timestamp : i \in AttributableSolves(t)} :
                      \A i \in AttributableSolves(t) : submissions[i].timestamp <= m

\* C16: any two distinct active teams differ in score or in last-solve time.
C16_RankTotalOrder ==
    \A a, b \in ActiveTeams :
        a # b => \/ total_score(a) # total_score(b)
                 \/ last_solve_time(a) # last_solve_time(b)

\* the teams listed by a view, and whether each is listed once
ListsExactly(list, S) ==
    /\ Len(list) = Cardinality(S)
    /\ {list[k].team : k \in DOMAIN list} = S

\* C17: the leaderboard views and the timeline series list exactly the teams
\* active at the time of the query, each once.
C17_OnlyActiveTeamsListed ==
    /\ \A q \in ScoreboardQuerysets : ListsExactly(scoreboard(q), ActiveTeams)
    /\ ListsExactly(scoreboard_json, ActiveTeams)
    /\ ListsExactly(scoreboard_timeseries_json, ActiveTeams)

\* C17 witness: a team with a correct submission linked to it has been
\* deactivated and is listed nowhere, while the other team is listed.
C17_Witness ==
    \E t \in Teams :
        /\ registered_at[t] # <<>>
        /\ ~is_active[t]
        /\ LinkedSolves(t) # {}
        /\ Len(scoreboard_json) = 1
        /\ scoreboard_json[1].team # t
        /\ Len(scoreboard_timeseries_json) = 1

\* C18: solve_count of scoreboard and solved_count of scoreboard_json both
\* equal the number of distinct challenges for which the team has a correct
\* attributable submission (stated for the teams whose attributable
\* submissions are all linked to them).
C18_SolveCountIsDistinctChallenges ==
    \A q \in ScoreboardQuerysets : \A k \in DOMAIN q :
        AttributableSolves(q[k]) = LinkedSolves(q[k])
        => LET n == Cardinality({submissions[i].challenge : i \in AttributableSolves(q[k])})
           IN /\ scoreboard_rows(q)[k].solve_count = n
              /\ \A j \in DOMAIN scoreboard_json_rows :
                    scoreboard_json_rows[j].team = q[k]
                    => scoreboard_json_rows[j].solved_count = n

\* the qualifying submissions of a team's timeline
Qualifying(t) ==
    {i \in DOMAIN submissions :
        /\ submissions[i].correct
        /\ (submissions[i].team = t \/ submissions[i].user \in members[t])}

\* the k-th qualifying submission in (timestamp, id) order
KthQualifying(t, k) ==
    CHOOSE i \in Qualifying(t) : Cardinality({j \in Qualifying(t) : j <= i}) = k

\* C19: a timeline is the baseline point (registered_at, 0), one point per
\* qualifying correct submission, and a final point at the current time
\* carrying the last cumulative value; with no qualifying submission it is
\* two points of value 0.
C19_TimelineShape ==
    \A s \in DOMAIN scoreboard_timeseries_json :
        LET t == scoreboard_timeseries_json[s].team
            P == scoreboard_timeseries_json[s].data
            n == Cardinality(Qualifying(t))
        IN /\ Len(P) = n + 2
           /\ P[1] = [t |-> isoformat(registered_at[t][1]), y |-> 0]
           /\ \A k \in 1..n :
                 /\ P[k + 1].t = isoformat(submissions[KthQualifying(t, k)].timestamp)
                 /\ P[k + 1].y =
                       P[k].y + chal[submissions[KthQualifying(t, k)].challenge].value
           /\ P[Len(P)].t = isoformat(now)
           /\ P[Len(P)].y = P[Len(P) - 1].y
           /\ (n = 0 => P[1].y = 0 /\ P[2].y = 0)

\* C19 witness: a team whose timeline has two qualifying submissions, one of
\* them made with a null team by the user who later founded the team, queried
\* after the last of them; and a team with none.
C19_Witness ==
    /\ Len(scoreboard_timeseries_json) = 2
    /\ \E s \in DOMAIN scoreboard_timeseries_json :
          /\ Len(scoreboard_timeseries_json[s].data) = 4
          /\ scoreboard_timeseries_json[s].data[4].y = 300
          /\ \E i \in Qualifying(scoreboard_timeseries_json[s].team) :
                submissions[i].team = NoTeam
    /\ \E s \in DOMAIN scoreboard_timeseries_json :
          Len(scoreboard_timeseries_json[s].data) = 2
    /\ now > submissions[Len(submissions)].timestamp

\* C20: in every timeline series the cumulative score never decreases from
\* one point to the next.
C20_TimelineNonDecreasing ==
    \A s \in DOMAIN scoreboard_timeseries_json :
        \A k \in 1..(Len(scoreboard_timeseries_json[s].data) - 1) :
            scoreboard_timeseries_json[s].data[k].y
               <= scoreboard_timeseries_json[s].data[k + 1].y

----------------------------------------------------------------------------
(* Timeline attribution properties *)

RECURSIVE SumChallengeValues(_)
SumChallengeValues(C) ==
    IF C = {} THEN 0
    ELSE LET c == CHOOSE x \in C : TRUE
         IN chal[c].value + SumChallengeValues(C \ {c})

\* C21: in a team's timeline a correct submission for a challenge that has
\* an earlier qualifying correct submission adds no credit: the final
\* cumulative value is the sum of the values of the distinct challenges
\* solved.
C21_TimelineCreditsChallengeOnce ==
    \A s \in DOMAIN scoreboard_timeseries_json :
        LET t == scoreboard_timeseries_json[s].team
            P == scoreboard_timeseries_json[s].data
        IN P[Len(P)].y =
              SumChallengeValues({submissions[i].challenge : i \in Qualifying(t)})

\* C22: each candidate submission contributes to a team's timeline exactly
\* once: the series has one event point per candidate, and each point raises
\* the cumulative value by the value of its challenge, once, also for a
\* submission that is both linked to the team and made by a current member.
C22_CandidateCountedOnce ==
    \A s \in DOMAIN scoreboard_timeseries_json :
        LET t == scoreboard_timeseries_json[s].team
            P == scoreboard_timeseries_json[s].data
        IN /\ Len(P) - 2 = Cardinality(Qualifying(t))
           /\ \A i \in Qualifying(t) :
                 LET k == Cardinality({j \in Qualifying(t) : j <= i})
                 IN P[k + 1].y - P[k].y = chal[submissions[i].challenge].value

\* C22 witness: the only candidate of a team's timeline is linked to the team
\* and was made by a current member, and the series ends at its value.
C22_Witness ==
    \E s \in DOMAIN scoreboard_timeseries_json :
        LET t == scoreboard_timeseries_json[s].team
            P == scoreboard_timeseries_json[s].data
        IN /\ Cardinality(Qualifying(t)) = 1
           /\ \A i \in Qualifying(t) :
                 /\ submissions[i].team = t
                 /\ submissions[i].user \in members[t]
                 /\ P[Len(P)].y = chal[submissions[i].challenge].value
           /\ Len(P) = 3

\* C23: the timestamps of a timeline never decrease from the registration
\* baseline through the event points to the final point, also when a current
\* member has correct submissions older than the team's registered_at.
C23_TimelineTimesOrdered ==
    \A s \in DOMAIN scoreboard_timeseries_json :
        \A k \in 1..(Len(scoreboard_timeseries_json[s].data) - 1) :
            ~SeqLess(scoreboard_timeseries_json[s].data[k + 1].t,
                     scoreboard_timeseries_json[s].data[k].t)

\* the correct submissions of user u that are not linked to any team
NullTeamSolves(u) ==
    {i \in DOMAIN submissions :
        /\ submissions[i].correct
        /\ submissions[i].user = u
        /\ submissions[i].team = NoTeam}

\* every correct submission of user u is linked to team t or to no team
OnlyOwnOrNullTeam(u, t) ==
    \A i \in DOMAIN submissions :
        (submissions[i].correct /\ submissions[i].user = u)
        => submissions[i].team \in {t, NoTeam}

\* C27: attribution by membership follows current membership: when a user
\* leaves team T his null-team correct submissions stop contributing to T's
\* timeline, when a user joins T they start contributing, and the
\* submissions linked to T contribute to T's timeline and total_score before
\* and after every membership change.
LeavingDropsNullTeamSolves ==
    \A u \in Users : \A t \in Teams :
        (leave_team(u) /\ FirstActiveTeam(u) = t /\ OnlyOwnOrNullTeam(u, t))
        => /\ TimelineFinal(t)' = TimelineFinal(t) - SumValues(NullTeamSolves(u))
           /\ TimelineFinal(t)' >= SumValues(LinkedSolves(t))
           /\ total_score(t)' = total_score(t)

JoiningAddsNullTeamSolves ==
    \A u \in Users : \A t \in Teams :
        (team_join(u, t) /\ OnlyOwnOrNullTeam(u, t))
        => /\ TimelineFinal(t)' = TimelineFinal(t) + SumValues(NullTeamSolves(u))
           /\ TimelineFinal(t) >= SumValues(LinkedSolves(t))
           /\ total_score(t)' = total_score(t)

LinkedSolvesAlwaysCount ==
    \A t \in Teams :
        /\ LinkedSolves(t) \subseteq TimelineCandidates(t)
        /\ total_score(t) = Max(0, SumValues(LinkedSolves(t)) - SumCosts(LinkedUnlocks(t)))

C27_AttributionFollowsMembership ==
    /\ []LinkedSolvesAlwaysCount
    /\ [][LeavingDropsNullTeamSolves /\ JoiningAddsNullTeamSolves]_vars

\* C27 witness: a user with a null-team correct submission and a correct
\* submission linked to his team has left the team: its timeline keeps the
\* linked submission's value and has lost the other.
C27_Witness ==
    \E u \in Users : \E t \in Teams :
        /\ NullTeamSolves(u) # {}
        /\ \E i \in LinkedSolves(t) : submissions[i].user = u
        /\ u \notin members[t]
        /\ TimelineFinal(t) = SumValues(LinkedSolves(t))
        /\ TimelineFinal(t) > 0
        /\ total_score(t) = TimelineFinal(t)

\* C30: each correct submission contributes to the timeline of at most one
\* active team.
C30_SubmissionInOneTimeline ==
    \A i \in DOMAIN submissions :
        Cardinality({s \in DOMAIN scoreboard_timeseries_json :
                        i \in TimelineCandidates(scoreboard_timeseries_json[s].team)}) <= 1

\* C28: every user is a member of at most one active team.
C28_SingleActiveTeam ==
    \A u \in Users : Cardinality({t \in ActiveTeams : u \in members[t]}) <= 1

\* C25: a team_join request adds the user to the team only if the supplied
\* password is the one chosen when the team was registered; a join with any
\* other password leaves the membership unchanged.
C25_JoinRequiresTeamPassword ==
    [][\A u \in Users : \A t \in Teams : \A pw \in Passwords :
          (team_join_post(u, t, pw) /\ pw # ChosenPassword[t])
          => members' = members]_vars

\* the stored records
store == <<members, chal, submissions, unlocks, registered_at, is_active,
           password_hash, settings_pks, dynamic_scoring>>

\* C24: the scoring queries are read-only: computing the leaderboard, a
\* timeline or a challenge's current_value leaves every stored record
\* unchanged, also when no CompetitionSettings record exists.
C24_QueriesReadOnly ==
    [][/\ scoreboard_request => store' = store
       /\ \A c \in Challenges : current_value_query(c) => store' = store]_vars

\* C26: at most one CompetitionSettings record exists, and a save that is
\* refused leaves the store unchanged.
AtMostOneSettingsRow == Cardinality(settings_pks) <= 1

RefusedSaveIsNoop ==
    \A r \in Slots :
        (SettingsSaveCheck(r, NoKey) /\ settings_pks # {}) => store' = store

C26_SettingsSingleton == []AtMostOneSettingsRow /\ [][RefusedSaveIsNoop]_vars

\* the correct submissions of user u for challenge c
CorrectRows(u, c) ==
    {i \in DOMAIN submissions :
        /\ submissions[i].user = u
        /\ submissions[i].challenge = c
        /\ submissions[i].correct}

\* C29: after any interleaving of flag submissions through challenge_detail
\* and submit_flag_ajax, each user has at most one correct submission per
\* challenge, also when two requests of the user for the challenge overlap.
C29_OneCorrectPerUserChallenge ==
    \A u \in Users, c \in Challenges : Cardinality(CorrectRows(u, c)) <= 1

====
